---- MODULE Spec2Model ----
(***************************************************************************)
(* Model of the weighted fair-share admission queue of                     *)
(* crates/phala-fair-queue/src/lib.rs: FairQueueInner (flows, backlog,     *)
(* serving, virtual_time), the one-shot admission channel of every         *)
(* request, the ServingGuard handed to the caller and the release task the *)
(* guard's Drop spawns.                                                    *)
(***************************************************************************)
EXTENDS Integers, Sequences, FiniteSets, TLC

\* ---------------------------------------------------------------- bounds
MaxCap == 2        \* backlog_cap ranges over 0..MaxCap
MaxDepth == 1      \* depth ranges over 0..MaxDepth
MaxReq == 3        \* number of acquire calls in a run
MaxTag == 4        \* cap on the finish tags handed out

FlowIds == {1, 2}        \* the flow_id argument of acquire
Weights == {1, 2}        \* the weight argument of acquire
Costs == {0, 10}         \* elapsed microseconds a dropped guard measures
ReqIds == 1..MaxReq

VARIABLES
    backlog_cap,    \* FairQueueInner.backlog_cap
    depth,          \* FairQueueInner.depth
    flows,          \* FairQueueInner.flows : FlowId -> Flow
    backlog,        \* FairQueueInner.backlog, in key order (equal keys in insertion order)
    serving,        \* FairQueueInner.serving
    virtual_time,   \* FairQueueInner.virtual_time
    nextId,         \* number of the next acquire call
    lock,           \* who holds the Mutex around FairQueueInner
    result,         \* per acquire call: what the caller of FairQueue::acquire has observed
    chan,           \* per acquire call: state of its oneshot channel
    guard,          \* per acquire call: life cycle of its ServingGuard
    tasks,          \* release tasks spawned by Drop for ServingGuard and not yet run
    releases,       \* per acquire call: how many times release ran for its guard
    lastPickup,     \* start_tag of the last request try_pickup_next dispatched, -1 if none
    last            \* the last locked section (acquire or release) and what it saw before acting

vars == <<backlog_cap, depth, flows, backlog, serving, virtual_time, nextId,
          lock, result, chan, guard, tasks, releases, lastPickup, last>>

\* ------------------------------------------------------- pure operations
Max(a, b) == IF a >= b THEN a ELSE b

NoGuard == [state |-> "none", flow_id |-> 0]

\* the Mutex with no holder
Unlocked == [kind |-> "free", id |-> 0, flow_id |-> 0, weight |-> 0, cost |-> 0]

\* slip: the caller keeps the MutexGuard while it waits on the channel
LockKeptWhileWaiting(holder) == holder

\* the lock after the statement that called FairQueueInner::acquire: the
\* MutexGuard is a temporary of that statement and is dropped at its end,
\* before the receiver is awaited
LockAfterAcquire(holder) == Unlocked

FlowDefault == [previous_finish_tag |-> 0, cost_avg |-> 0]

\* slip: the earlier of the two tags is taken
StartTagMin(vt, previous_finish_tag) == IF vt <= previous_finish_tag THEN vt ELSE previous_finish_tag

\* slip: every request starts at virtual_time, whatever its flow was given before
StartTagFromVirtualTime(vt, previous_finish_tag) == vt

\* slip: the flow's own tag is taken without the pull-up to virtual_time
StartTagNoPullUp(vt, previous_finish_tag) == previous_finish_tag

StartTag(vt, previous_finish_tag) == Max(vt, previous_finish_tag)

\* slip: the weight is left out of the width of a request
FinishTagIgnoresWeight(start_tag, cost_avg, weight) == start_tag + Max(cost_avg, 1)

\* slip: the weight multiplies the cost where it should divide it
FinishTagTimesWeight(start_tag, cost_avg, weight) == start_tag + Max(cost_avg * weight, 1)

\* slip: the width of a request is taken without the floor of 1
FinishTagNoFloor(start_tag, cost_avg, weight) == start_tag + cost_avg \div weight

FinishTag(start_tag, cost_avg, weight) == start_tag + Max(cost_avg \div weight, 1)

\* slip: the division by 5 is left out
SmoothedCostSum(cost_avg, actual_cost) == cost_avg * 4 + actual_cost

\* slip: the estimate is the last measured cost, with no smoothing
SmoothedCostLast(cost_avg, actual_cost) == actual_cost

\* slip: the estimate is never updated
SmoothedCostKeepsOld(cost_avg, actual_cost) == cost_avg

SmoothedCost(cost_avg, actual_cost) == (cost_avg * 4 + actual_cost) \div 5

\* slip: the cap test is off by one
BacklogFullStrict(len, cap) == len > cap

BacklogFull(len, cap) == len >= cap

\* slip: the comparison is turned around, the fairer arrival is turned away
NotFairerReversed(start_tag, max_start_tag) == start_tag <= max_start_tag

\* slip: an arrival exactly as late as the worst waiter is let in
NotFairerStrict(start_tag, max_start_tag) == start_tag > max_start_tag

NotFairer(start_tag, max_start_tag) == start_tag >= max_start_tag

\* slip: the depth test is off by one
SlotFreeInclusive(srv, dep) == srv <= dep

\* slip: the last slot is never given out on arrival
SlotFreeLeavesOne(srv, dep) == srv + 1 < dep

SlotFree(srv, dep) == srv < dep

\* slip: a new node goes to the left of the nodes with its key
InsertPosBeforeEquals(bl, start_tag) ==
    Cardinality({i \in 1..Len(bl) : bl[i].start_tag < start_tag})

\* RBTree::insert: a new node goes to the right of every node whose key is
\* less than or equal to its key, so equal keys stay in insertion order.
InsertPos(bl, start_tag) == Cardinality({i \in 1..Len(bl) : bl[i].start_tag <= start_tag})

\* slip: a node with the key of the new node is overwritten by it
BacklogInsertOverwrites(bl, request) ==
    LET kept == SelectSeq(bl, LAMBDA e : e.start_tag # request.start_tag)
        p == InsertPos(kept, request.start_tag)
    IN  SubSeq(kept, 1, p) \o <<request>> \o SubSeq(kept, p + 1, Len(kept))

BacklogInsert(bl, request) ==
    LET p == InsertPos(bl, request.start_tag)
    IN  SubSeq(bl, 1, p) \o <<request>> \o SubSeq(bl, p + 1, Len(bl))

\* slip: the peek reads the leftmost node
GetLastReadsFirst(bl) == bl[1]

\* RBTree::get_last: the rightmost node
GetLast(bl) == bl[Len(bl)]

\* slip: the eviction takes the leftmost node
PopLastTakesFirst(bl) == [kv |-> bl[1], rest |-> SubSeq(bl, 2, Len(bl))]

\* RBTree::pop_last: the rightmost node and the tree without it
PopLast(bl) == [kv |-> bl[Len(bl)], rest |-> SubSeq(bl, 1, Len(bl) - 1)]

\* slip: among the nodes with the least key the pickup takes the newest
PopFirstTakesNewestTie(bl) ==
    LET p == Cardinality({i \in 1..Len(bl) : bl[i].start_tag = bl[1].start_tag})
    IN  [kv |-> bl[p], rest |-> SubSeq(bl, 1, p - 1) \o SubSeq(bl, p + 1, Len(bl))]

\* slip: the pickup takes the rightmost node
PopFirstTakesLast(bl) == [kv |-> bl[Len(bl)], rest |-> SubSeq(bl, 1, Len(bl) - 1)]

\* slip: the pickup reads the leftmost node and leaves it in the tree
PopFirstPeeks(bl) == [kv |-> bl[1], rest |-> bl]

\* RBTree::pop_first: the leftmost node and the tree without it
PopFirst(bl) == [kv |-> bl[1], rest |-> SubSeq(bl, 2, Len(bl))]

NoRequest == [id |-> 0, flow_id |-> 0, start_tag |-> 0]

\* the scheduler state one locked section works on
\* (picked: the request try_pickup_next popped in this section, if any)
Inner == [flows |-> flows, backlog |-> backlog, serving |-> serving,
          virtual_time |-> virtual_time, chan |-> chan, guard |-> guard,
          tasks |-> tasks, picked |-> NoRequest]

\* slip: the guard is destroyed without spawning its release task
DropGuardInNoSpawn(s, id, flow_id, cost) == [s EXCEPT !.guard[id].state = "dropped"]

\* Drop for ServingGuard: the elapsed time is measured and a release task is spawned
DropGuardIn(s, id, flow_id, cost) ==
    [s EXCEPT !.guard[id].state = "dropped",
              !.tasks = @ \cup {[id |-> id, flow_id |-> flow_id, cost |-> cost]}]

\* slip: virtual_time is moved past the start_tag of the dispatched request
DispatchMovesPast(s, request, rxGone, cost) ==
    LET s1 == [s EXCEPT !.serving = @ + 1,
                        !.virtual_time = request.start_tag + 1,
                        !.guard[request.id] = [state |-> "live",
                                               flow_id |-> request.flow_id]]
    IN  IF rxGone
        THEN DropGuardIn([s1 EXCEPT !.chan[request.id] = "closed"],
                         request.id, request.flow_id, cost)
        ELSE [s1 EXCEPT !.chan[request.id] = "sent"]

\* slip: a guard whose receiver is gone gives its slot back on the spot,
\* inside dispatch, and no release task is spawned
DispatchReleasesInline(s, request, rxGone, cost) ==
    LET s1 == [s EXCEPT !.virtual_time = request.start_tag]
    IN  IF rxGone
        THEN [s1 EXCEPT !.chan[request.id] = "closed",
                        !.guard[request.id] = [state |-> "released",
                                               flow_id |-> request.flow_id]]
        ELSE [s1 EXCEPT !.serving = @ + 1,
                        !.chan[request.id] = "sent",
                        !.guard[request.id] = [state |-> "live",
                                               flow_id |-> request.flow_id]]

\* FairQueueInner::dispatch; rxGone tells whether the receiver was dropped,
\* cost is the elapsed time a guard destroyed by the failed send measures
Dispatch(s, request, rxGone, cost) ==
    LET s1 == [s EXCEPT !.serving = @ + 1,
                        !.virtual_time = request.start_tag,
                        !.guard[request.id] = [state |-> "live",
                                               flow_id |-> request.flow_id]]
    IN  IF rxGone
        THEN DropGuardIn([s1 EXCEPT !.chan[request.id] = "closed"],
                         request.id, request.flow_id, cost)
        ELSE [s1 EXCEPT !.chan[request.id] = "sent"]

\* slip: the pickup throws away an entry whose receiver is gone and makes no
\* guard for it
TryPickupNextSkipsGone(s, rx, cost) ==
    IF s.backlog # <<>>
    THEN LET p == PopFirst(s.backlog)
         IN  IF rx[p.kv.id] = "abandoned"
             THEN [s EXCEPT !.backlog = p.rest, !.chan[p.kv.id] = "closed"]
             ELSE Dispatch([s EXCEPT !.backlog = p.rest, !.picked = p.kv], p.kv,
                           FALSE, cost)
    ELSE s

\* slip: the pickup leaves the waiters where they are
TryPickupNextNever(s, rx, cost) == s

\* FairQueueInner::try_pickup_next
TryPickupNext(s, rx, cost) ==
    IF s.backlog # <<>>
    THEN LET p == PopFirst(s.backlog)
         IN  Dispatch([s EXCEPT !.backlog = p.rest, !.picked = p.kv], p.kv,
                      rx[p.kv.id] = "abandoned", cost)
    ELSE s

\* slip: release updates the estimate and picks up, but never frees the slot
ReleaseInnerNoDecrement(s, flow_id, actual_cost, rx, cost) ==
    TryPickupNext([s EXCEPT !.flows[flow_id].cost_avg = SmoothedCost(@, actual_cost)],
                  rx, cost)

\* slip: release frees the slot and leaves the waiters in the backlog
ReleaseInnerNoPickup(s, flow_id, actual_cost, rx, cost) ==
    [s EXCEPT !.flows[flow_id].cost_avg = SmoothedCost(@, actual_cost),
              !.serving = @ - 1]

\* slip: release removes the entry of a flow that has nothing waiting
ReleaseInnerDropsIdleFlow(s, flow_id, actual_cost, rx, cost) ==
    LET idle == \A i \in 1..Len(s.backlog) : s.backlog[i].flow_id # flow_id
        s1 == IF flow_id \in DOMAIN s.flows
              THEN IF idle
                   THEN [s EXCEPT !.flows = [g \in DOMAIN s.flows \ {flow_id} |-> s.flows[g]]]
                   ELSE [s EXCEPT !.flows[flow_id].cost_avg = SmoothedCost(@, actual_cost)]
              ELSE s
        s2 == [s1 EXCEPT !.serving = @ - 1]
    IN  TryPickupNext(s2, rx, cost)

\* slip: release hands the flow back the tag range it was given
ReleaseInnerRefundsTag(s, flow_id, actual_cost, rx, cost) ==
    LET s1 == IF flow_id \in DOMAIN s.flows
              THEN [s EXCEPT !.flows[flow_id].cost_avg = SmoothedCost(@, actual_cost),
                             !.flows[flow_id].previous_finish_tag = s.virtual_time]
              ELSE s
        s2 == [s1 EXCEPT !.serving = @ - 1]
    IN  TryPickupNext(s2, rx, cost)

\* FairQueueInner::release.  serving is kept as a mathematical integer: a
\* decrement at 0 (an overflow panic or a wrap of the u32) shows as -1.
ReleaseInner(s, flow_id, actual_cost, rx, cost) ==
    LET s1 == IF flow_id \in DOMAIN s.flows
              THEN [s EXCEPT !.flows[flow_id].cost_avg = SmoothedCost(@, actual_cost)]
              ELSE s
        s2 == [s1 EXCEPT !.serving = @ - 1]
    IN  TryPickupNext(s2, rx, cost)

\* slip: the admission decision is taken before the flow's tags are written,
\* so a rejected request leaves no trace
AcquireInnerRejectsFirst(s, id, flow_id, weight) ==
    LET flow == IF flow_id \in DOMAIN s.flows THEN s.flows[flow_id] ELSE FlowDefault
        start_tag == StartTag(s.virtual_time, flow.previous_finish_tag)
        finish_tag == FinishTag(start_tag, flow.cost_avg, weight)
        flows1 == [f \in DOMAIN s.flows \cup {flow_id} |->
                     IF f = flow_id
                     THEN [flow EXCEPT !.previous_finish_tag = finish_tag]
                     ELSE s.flows[f]]
        s1 == [s EXCEPT !.flows = flows1]
        full == BacklogFull(Len(s.backlog), backlog_cap)
        request == [id |-> id, flow_id |-> flow_id, start_tag |-> start_tag]
    IN  IF full /\ s.backlog = <<>>
        THEN [s |-> s1, out |-> "panic", evicted |-> 0,
              start_tag |-> start_tag, finish_tag |-> finish_tag]
        ELSE IF full /\ NotFairer(start_tag, GetLast(s.backlog).start_tag)
        THEN [s |-> s, out |-> "overloaded", evicted |-> 0,
              start_tag |-> start_tag, finish_tag |-> finish_tag]
        ELSE LET victim == IF full THEN PopLast(s.backlog).kv.id ELSE 0
                 s2 == IF full
                       THEN [s1 EXCEPT !.backlog = PopLast(@).rest,
                                       !.chan[victim] = "closed"]
                       ELSE s1
                 s3 == [s2 EXCEPT !.chan[id] = "open"]
                 s4 == IF SlotFree(s3.serving, depth)
                       THEN Dispatch(s3, request, FALSE, 0)
                       ELSE [s3 EXCEPT !.backlog = BacklogInsert(@, request)]
             IN  [s |-> s4, out |-> "admitted", evicted |-> victim,
                  start_tag |-> start_tag, finish_tag |-> finish_tag]

\* slip: an eviction hands the flow of the evicted request its tag back
AcquireInnerRefundsEvicted(s, id, flow_id, weight) ==
    LET flow == IF flow_id \in DOMAIN s.flows THEN s.flows[flow_id] ELSE FlowDefault
        start_tag == StartTag(s.virtual_time, flow.previous_finish_tag)
        finish_tag == FinishTag(start_tag, flow.cost_avg, weight)
        flows1 == [f \in DOMAIN s.flows \cup {flow_id} |->
                     IF f = flow_id
                     THEN [flow EXCEPT !.previous_finish_tag = finish_tag]
                     ELSE s.flows[f]]
        s1 == [s EXCEPT !.flows = flows1]
        full == BacklogFull(Len(s.backlog), backlog_cap)
        request == [id |-> id, flow_id |-> flow_id, start_tag |-> start_tag]
    IN  IF full /\ s.backlog = <<>>
        THEN [s |-> s1, out |-> "panic", evicted |-> 0,
              start_tag |-> start_tag, finish_tag |-> finish_tag]
        ELSE IF full /\ NotFairer(start_tag, GetLast(s.backlog).start_tag)
        THEN [s |-> s1, out |-> "overloaded", evicted |-> 0,
              start_tag |-> start_tag, finish_tag |-> finish_tag]
        ELSE LET gone == PopLast(s.backlog).kv
                 victim == IF full THEN gone.id ELSE 0
                 s2 == IF full
                       THEN [s1 EXCEPT !.backlog = PopLast(@).rest,
                                       !.chan[victim] = "closed",
                                       !.flows[gone.flow_id].previous_finish_tag =
                                            gone.start_tag]
                       ELSE s1
                 s3 == [s2 EXCEPT !.chan[id] = "open"]
                 s4 == IF SlotFree(s3.serving, depth)
                       THEN Dispatch(s3, request, FALSE, 0)
                       ELSE [s3 EXCEPT !.backlog = BacklogInsert(@, request)]
             IN  [s |-> s4, out |-> "admitted", evicted |-> victim,
                  start_tag |-> start_tag, finish_tag |-> finish_tag]

\* FairQueueInner::acquire.  out is "panic" (the expect on get_last failed),
\* "overloaded" (Err(Overloaded)) or "admitted" (Ok(rx)); evicted is the id of
\* the request popped from the backlog, 0 if none.
AcquireInner(s, id, flow_id, weight) ==
    LET flow == IF flow_id \in DOMAIN s.flows THEN s.flows[flow_id] ELSE FlowDefault
        start_tag == StartTag(s.virtual_time, flow.previous_finish_tag)
        finish_tag == FinishTag(start_tag, flow.cost_avg, weight)
        flows1 == [f \in DOMAIN s.flows \cup {flow_id} |->
                     IF f = flow_id
                     THEN [flow EXCEPT !.previous_finish_tag = finish_tag]
                     ELSE s.flows[f]]
        s1 == [s EXCEPT !.flows = flows1]
        full == BacklogFull(Len(s.backlog), backlog_cap)
        request == [id |-> id, flow_id |-> flow_id, start_tag |-> start_tag]
    IN  IF full /\ s.backlog = <<>>
        THEN [s |-> s1, out |-> "panic", evicted |-> 0,
              start_tag |-> start_tag, finish_tag |-> finish_tag]
        ELSE IF full /\ NotFairer(start_tag, GetLast(s.backlog).start_tag)
        THEN [s |-> s1, out |-> "overloaded", evicted |-> 0,
              start_tag |-> start_tag, finish_tag |-> finish_tag]
        ELSE LET victim == IF full THEN PopLast(s.backlog).kv.id ELSE 0
                 s2 == IF full
                       THEN [s1 EXCEPT !.backlog = PopLast(@).rest,
                                       !.chan[victim] = "closed"]
                       ELSE s1
                 s3 == [s2 EXCEPT !.chan[id] = "open"]
                 s4 == IF SlotFree(s3.serving, depth)
                       THEN Dispatch(s3, request, FALSE, 0)
                       ELSE [s3 EXCEPT !.backlog = BacklogInsert(@, request)]
             IN  [s |-> s4, out |-> "admitted", evicted |-> victim,
                  start_tag |-> start_tag, finish_tag |-> finish_tag]

\* ------------------------------------------------------------------ state
NoStep == [op |-> "init", id |-> 0, flow_id |-> 0, start_tag |-> 0, out |-> "none",
           evicted |-> 0, picked |-> NoRequest, backlog |-> <<>>, serving |-> 0,
           virtual_time |-> 0, lastPickup |-> -1]

Init ==
    /\ backlog_cap \in 0..MaxCap
    /\ depth \in 0..MaxDepth
    /\ flows = <<>>
    /\ backlog = <<>>
    /\ serving = 0
    /\ virtual_time = 0
    /\ nextId = 1
    /\ result = [r \in ReqIds |-> "none"]
    /\ chan = [r \in ReqIds |-> "none"]
    /\ guard = [r \in ReqIds |-> NoGuard]
    /\ tasks = {}
    /\ releases = [r \in ReqIds |-> 0]
    /\ lastPickup = -1
    /\ lock = Unlocked
    /\ last = NoStep

SetInner(s) ==
    /\ flows' = s.flows
    /\ backlog' = s.backlog
    /\ serving' = s.serving
    /\ virtual_time' = s.virtual_time
    /\ chan' = s.chan
    /\ guard' = s.guard
    /\ tasks' = s.tasks

\* the scheduler fields a locked section finds when it takes the lock
Seen(op, id, flow_id) ==
    [NoStep EXCEPT !.op = op, !.id = id, !.flow_id = flow_id,
                   !.backlog = backlog, !.serving = serving,
                   !.virtual_time = virtual_time, !.lastPickup = lastPickup]

\* FairQueue::acquire up to the wait on the channel, in a run of at most
\* maxReq calls that hands out finish tags up to maxTag
AcquireCall(flow_id, weight, maxReq, maxTag) ==
    /\ nextId <= maxReq
    /\ LET a == AcquireInner(Inner, nextId, flow_id, weight)
       IN  /\ a.finish_tag <= maxTag
           /\ SetInner(a.s)
           /\ result' = [result EXCEPT ![nextId] =
                            CASE a.out = "panic" -> "panic"
                              [] a.out = "overloaded" -> "overloaded"
                              [] OTHER -> "pending"]
           /\ last' = [Seen("acquire", nextId, flow_id) EXCEPT
                            !.start_tag = a.start_tag, !.out = a.out,
                            !.evicted = a.evicted]
    /\ nextId' = nextId + 1
    /\ lock' = LockAfterAcquire(lock)
    /\ UNCHANGED <<backlog_cap, depth, releases, lastPickup>>

Acquire(flow_id, weight) == AcquireCall(flow_id, weight, MaxReq, MaxTag)

\* rx.await completes: the caller takes the guard, or sees the closed channel
Recv(id) ==
    /\ result[id] = "pending"
    /\ chan[id] \in {"sent", "closed"}
    /\ IF chan[id] = "sent"
       THEN /\ result' = [result EXCEPT ![id] = "guard"]
            /\ chan' = [chan EXCEPT ![id] = "taken"]
       ELSE /\ result' = [result EXCEPT ![id] = "canceled"]
            /\ chan' = chan
    /\ UNCHANGED <<backlog_cap, depth, flows, backlog, serving, virtual_time, nextId, lock,
                   guard, tasks, releases, lastPickup, last>>

\* slip: dropping the future takes the waiting request out of the backlog
AbandonTakesEntryOut(id, cost) ==
    /\ result[id] = "pending"
    /\ result' = [result EXCEPT ![id] = "abandoned"]
    /\ IF chan[id] = "sent"
       THEN SetInner(DropGuardIn([Inner EXCEPT !.chan[id] = "closed"],
                                 id, guard[id].flow_id, cost))
       ELSE SetInner([Inner EXCEPT !.backlog = SelectSeq(@, LAMBDA e : e.id # id),
                                   !.chan[id] = "closed"])
    /\ UNCHANGED <<backlog_cap, depth, nextId, lock, releases, lastPickup, last>>

\* the caller drops the future of acquire while it waits on the channel; a
\* guard already sent is destroyed with the receiver
Abandon(id, cost) ==
    /\ result[id] = "pending"
    /\ result' = [result EXCEPT ![id] = "abandoned"]
    /\ IF chan[id] = "sent"
       THEN SetInner(DropGuardIn([Inner EXCEPT !.chan[id] = "closed"],
                                 id, guard[id].flow_id, cost))
       ELSE UNCHANGED <<flows, backlog, serving, virtual_time, chan, guard, tasks>>
    /\ UNCHANGED <<backlog_cap, depth, nextId, lock, releases, lastPickup, last>>

\* the caller lets go of the guard it holds: Drop for ServingGuard
DropGuard(id, cost) ==
    /\ result[id] = "guard"
    /\ guard[id].state = "live"
    /\ SetInner(DropGuardIn(Inner, id, guard[id].flow_id, cost))
    /\ UNCHANGED <<backlog_cap, depth, nextId, lock, result, releases, lastPickup, last>>

\* the spawned task runs: queue.inner.lock().await.release(&flow_id, cost)
Release(t, cost) ==
    /\ t \in tasks
    /\ LET s0 == [Inner EXCEPT !.tasks = @ \ {t}, !.guard[t.id].state = "released"]
           s1 == ReleaseInner(s0, t.flow_id, t.cost, result, cost)
       IN  /\ SetInner(s1)
           /\ lastPickup' = IF s1.picked.id # 0 THEN s1.picked.start_tag ELSE lastPickup
           /\ last' = [Seen("release", t.id, t.flow_id) EXCEPT !.picked = s1.picked]
    /\ releases' = [releases EXCEPT ![t.id] = @ + 1]
    /\ lock' = Unlocked
    /\ UNCHANGED <<backlog_cap, depth, nextId, result>>

Next ==
    \/ \E f \in FlowIds, w \in Weights : Acquire(f, w)
    \/ \E id \in ReqIds : Recv(id)
    \/ \E id \in ReqIds, c \in Costs : Abandon(id, c)
    \/ \E id \in ReqIds, c \in Costs : DropGuard(id, c)
    \/ \E t \in tasks, c \in Costs : Release(t, c)

Spec == Init /\ [][Next]_vars

TypeOK ==
    /\ backlog_cap \in 0..MaxCap
    /\ depth \in 0..MaxDepth
    /\ DOMAIN flows \subseteq FlowIds
    /\ \A f \in DOMAIN flows : flows[f].previous_finish_tag \in 0..MaxTag
                               /\ flows[f].cost_avg \in 0..10
    /\ serving \in Int
    /\ virtual_time \in 0..MaxTag
    /\ nextId \in 1..(MaxReq + 1)
    /\ \A r \in ReqIds : result[r] \in {"none", "pending", "guard", "overloaded",
                                        "canceled", "panic", "abandoned"}
    /\ \A r \in ReqIds : chan[r] \in {"none", "open", "sent", "taken", "closed"}
    /\ \A r \in ReqIds : guard[r].state \in {"none", "live", "dropped", "released"}

\* the executor is fair: a spawned release task is eventually run and a
\* caller whose channel has resolved is eventually polled; callers let go of
\* the guards they hold
RunRelease == \E t \in tasks, c \in Costs : Release(t, c)
Poll == \E id \in ReqIds : Recv(id)
LetGo == \E id \in ReqIds, c \in Costs : DropGuard(id, c)

\* the behaviours under fairness are explored for the queues with at most one
\* slot and at most two waiting places
FairInit == Init /\ backlog_cap <= 2 /\ depth <= 1

FairSpec ==
    FairInit /\ [][Next]_vars /\ WF_vars(RunRelease) /\ WF_vars(Poll) /\ WF_vars(LetGo)

\* ------------------------------------------------ the lock, step by step
\* The same queue with the Mutex made visible: taking the lock and running
\* the locked section are two steps, and nothing else can enter FairQueueInner
\* in between.  `self.inner.lock().await` of FairQueue::acquire:
LockByAcquire(flow_id, weight) ==
    /\ lock = Unlocked
    /\ nextId <= MaxReq
    /\ AcquireInner(Inner, nextId, flow_id, weight).finish_tag <= MaxTag
    /\ lock' = [Unlocked EXCEPT !.kind = "acquire", !.id = nextId,
                                !.flow_id = flow_id, !.weight = weight]
    /\ UNCHANGED <<backlog_cap, depth, flows, backlog, serving, virtual_time, nextId,
                   result, chan, guard, tasks, releases, lastPickup, last>>

\* `.acquire(flow_id, weight)?` under the lock, to the end of the statement
LockedAcquire ==
    /\ lock.kind = "acquire"
    /\ lock.id = nextId
    /\ Acquire(lock.flow_id, lock.weight)

\* `queue.inner.lock().await` of the spawned release task
LockByRelease(t) ==
    /\ lock = Unlocked
    /\ t \in tasks
    /\ lock' = [Unlocked EXCEPT !.kind = "release", !.id = t.id,
                                !.flow_id = t.flow_id, !.cost = t.cost]
    /\ UNCHANGED <<backlog_cap, depth, flows, backlog, serving, virtual_time, nextId,
                   result, chan, guard, tasks, releases, lastPickup, last>>

\* `.release(&flow_id, cost)` under the lock, to the end of the statement
LockedRelease(cost) ==
    /\ lock.kind = "release"
    /\ \E t \in tasks :
          /\ t.id = lock.id /\ t.flow_id = lock.flow_id /\ t.cost = lock.cost
          /\ Release(t, cost)

TakeLockToAcquire == \E f \in FlowIds, w \in Weights : LockByAcquire(f, w)
TakeLockToRelease == \E t \in tasks : LockByRelease(t)
RunLockedRelease == \E c \in Costs : LockedRelease(c)
GiveUp == \E id \in ReqIds, c \in Costs : Abandon(id, c)

LockNext ==
    \/ TakeLockToAcquire
    \/ LockedAcquire
    \/ Poll
    \/ GiveUp
    \/ LetGo
    \/ TakeLockToRelease
    \/ RunLockedRelease

\* the queues with one slot and either no waiting place or two; a task that
\* holds the lock runs on, a release task that finds the lock free takes it
LockInit == Init /\ backlog_cap \in {0, 2} /\ depth = 1

LockSpec ==
    /\ LockInit
    /\ [][LockNext]_vars
    /\ WF_vars(LockedAcquire) /\ WF_vars(TakeLockToRelease) /\ WF_vars(RunLockedRelease)
    /\ WF_vars(Poll) /\ WF_vars(LetGo)

\* ------------------------------------------- the scenarios of the test module
\* test_eq_cost_eq_weight_normal and test_eq_cost_eq_weight_overload: flows 1,
\* 2 and 3 each spawn TestIter tasks that acquire with weight 1, hold the guard
\* for a sleep of TestSleepMs and drop it.  The calls are numbered in the order
\* they are made: all of flow 1, then all of flow 2, then all of flow 3.
TestFlowIds == {1, 2, 3}
TestIter == 5
TestDepth == 2
TestSleepMs == 100
NormalCap == 15
OverloadCap == 10

TestIds == 1..(Cardinality(TestFlowIds) * TestIter)

TestFlowOf(id) == ((id - 1) \div TestIter) + 1

\* FairQueue::new(cap, TestDepth) and no task run yet
TestInit(cap) ==
    /\ backlog_cap = cap
    /\ depth = TestDepth
    /\ flows = <<>>
    /\ backlog = <<>>
    /\ serving = 0
    /\ virtual_time = 0
    /\ nextId = 1
    /\ result = [r \in TestIds |-> "none"]
    /\ chan = [r \in TestIds |-> "none"]
    /\ guard = [r \in TestIds |-> NoGuard]
    /\ tasks = {}
    /\ releases = [r \in TestIds |-> 0]
    /\ lastPickup = -1
    /\ lock = Unlocked
    /\ last = NoStep

\* the next spawned task makes its call: q.acquire(flow_id, weight)
SpawnTask ==
    /\ nextId \in TestIds
    /\ AcquireCall(TestFlowOf(nextId), 1, Cardinality(TestIds), Cardinality(TestIds))

\* a task is resumed with what its channel resolved to
TestRecv == \E id \in TestIds : Recv(id)

\* a task's sleep is over and its guard goes out of scope; the sleeps outlast
\* the time in which the calls are made
TestSleepOver ==
    /\ nextId \notin TestIds
    /\ \E id \in TestIds : DropGuard(id, TestSleepMs * 1000)

\* a spawned release task runs
TestRelease == \E t \in tasks : Release(t, 0)

TestNext == SpawnTask \/ TestRecv \/ TestSleepOver \/ TestRelease

TestFair ==
    /\ WF_vars(SpawnTask)
    /\ WF_vars(TestRecv)
    /\ WF_vars(TestSleepOver)
    /\ WF_vars(TestRelease)

NormalSpec == TestInit(NormalCap) /\ [][TestNext]_vars /\ TestFair

OverloadSpec == TestInit(OverloadCap) /\ [][TestNext]_vars /\ TestFair

\* test_ne_cost_eq_weight_normal and test_ne_cost_ne_weight_normal: the flows
\* first learn costs of 300, 200 and 100 ms with weight 1, then each spawns
\* BurstIter tasks at once.  The warm-up is one request per flow, served and
\* released before the next call is made, which leaves the learned costs in
\* the ratio of the sleeps as every further round of the test does.  The calls
\* are numbered in the order they are made.
NeCostMs == <<300, 200, 100>>
NeWeights == <<3, 2, 1>>
EqWeights == <<1, 1, 1>>
BurstIter == 10
NeCap == 30

NeWarmIds == 1..Len(NeCostMs)

NeIds == 1..(Len(NeCostMs) * (1 + BurstIter))

NeFlowOf(id) ==
    IF id \in NeWarmIds THEN id ELSE ((id - Len(NeCostMs) - 1) \div BurstIter) + 1

\* FairQueue::new(NeCap, TestDepth) and no task run yet
NeInit ==
    /\ backlog_cap = NeCap
    /\ depth = TestDepth
    /\ flows = <<>>
    /\ backlog = <<>>
    /\ serving = 0
    /\ virtual_time = 0
    /\ nextId = 1
    /\ result = [r \in NeIds |-> "none"]
    /\ chan = [r \in NeIds |-> "none"]
    /\ guard = [r \in NeIds |-> NoGuard]
    /\ tasks = {}
    /\ releases = [r \in NeIds |-> 0]
    /\ lastPickup = -1
    /\ lock = Unlocked
    /\ last = NoStep

\* a warm-up task calls with weight 1 once the warm-up before it is released
NeWarmUp ==
    /\ nextId \in NeWarmIds
    /\ \A r \in NeWarmIds : r < nextId => releases[r] = 1
    /\ AcquireCall(NeFlowOf(nextId), 1, Len(NeCostMs) * (1 + BurstIter),
                   NeCostMs[1] * 1000 * BurstIter)

\* a task of the burst calls with the weight of its flow
NeBurst(weights) ==
    /\ nextId \in NeIds \ NeWarmIds
    /\ \A r \in NeWarmIds : releases[r] = 1
    /\ AcquireCall(NeFlowOf(nextId), weights[NeFlowOf(nextId)],
                   Len(NeCostMs) * (1 + BurstIter), NeCostMs[1] * 1000 * BurstIter)

NeRecv == \E id \in NeIds : Recv(id)

\* a task's sleep is over and its guard goes out of scope; the sleeps of the
\* burst outlast the time in which its calls are made
NeSleepOver ==
    \E id \in NeIds :
        /\ id \in NeWarmIds \/ nextId \notin NeIds
        /\ DropGuard(id, NeCostMs[NeFlowOf(id)] * 1000)

NeRelease == \E t \in tasks : Release(t, 0)

NeNext(weights) == NeWarmUp \/ NeBurst(weights) \/ NeRecv \/ NeSleepOver \/ NeRelease

NeFair(weights) ==
    /\ WF_vars(NeWarmUp)
    /\ WF_vars(NeBurst(weights))
    /\ WF_vars(NeRecv)
    /\ WF_vars(NeSleepOver)
    /\ WF_vars(NeRelease)

NeWeightSpec == NeInit /\ [][NeNext(NeWeights)]_vars /\ NeFair(NeWeights)

EqWeightSpec == NeInit /\ [][NeNext(EqWeights)]_vars /\ NeFair(EqWeights)

\* the same warm-up and burst with weights 3, 2, 1 for flows that all cost the
\* same: every task sleeps as long as those of flow 1
EqCostSleepOver ==
    \E id \in NeIds :
        /\ id \in NeWarmIds \/ nextId \notin NeIds
        /\ DropGuard(id, NeCostMs[1] * 1000)

EqCostNext == NeWarmUp \/ NeBurst(NeWeights) \/ NeRecv \/ EqCostSleepOver \/ NeRelease

EqCostSpec ==
    /\ NeInit
    /\ [][EqCostNext]_vars
    /\ WF_vars(NeWarmUp)
    /\ WF_vars(NeBurst(NeWeights))
    /\ WF_vars(NeRecv)
    /\ WF_vars(EqCostSleepOver)
    /\ WF_vars(NeRelease)

\* ---------------------------------------------- three callers and one slot
\* A makes the first call, B the second, C the third
Caller == [A |-> 1, B |-> 2, C |-> 3]

TrioIds == {Caller.A, Caller.B, Caller.C}

\* FairQueue::new(cap, 1) for a cap in caps, and no call made yet
TrioInit(caps) ==
    /\ backlog_cap \in caps
    /\ depth = 1
    /\ flows = <<>>
    /\ backlog = <<>>
    /\ serving = 0
    /\ virtual_time = 0
    /\ nextId = 1
    /\ result = [r \in TrioIds |-> "none"]
    /\ chan = [r \in TrioIds |-> "none"]
    /\ guard = [r \in TrioIds |-> NoGuard]
    /\ tasks = {}
    /\ releases = [r \in TrioIds |-> 0]
    /\ lastPickup = -1
    /\ lock = Unlocked
    /\ last = NoStep

\* the flows the three callers pick from
TrioFlowIds == {1, 2, 3}

TrioAcquire ==
    \E f \in TrioFlowIds, w \in Weights : AcquireCall(f, w, Cardinality(TrioIds), MaxTag)

TrioRecv == \E id \in TrioIds : Recv(id)

TrioRelease == \E t \in tasks, c \in Costs : Release(t, c)

\* B gives up waiting while A holds the slot: A has taken its guard before B
\* calls, B drops the future of its call while it waits and before A drops
\* the guard, and C calls once the release of A's guard has run
CancelNext ==
    \/ nextId = Caller.A /\ TrioAcquire
    \/ nextId = Caller.B /\ result[Caller.A] = "guard" /\ TrioAcquire
    \/ nextId = Caller.C /\ releases[Caller.A] = 1 /\ TrioAcquire
    \/ TrioRecv
    \/ guard[Caller.A].state = "live" /\ chan[Caller.B] = "open"
          /\ \E c \in Costs : Abandon(Caller.B, c)
    \/ result[Caller.B] = "abandoned" /\ \E c \in Costs : DropGuard(Caller.A, c)
    \/ \E c \in Costs : DropGuard(Caller.C, c)
    \/ TrioRelease

CancelSpec ==
    /\ TrioInit({1, 2})
    /\ [][CancelNext]_vars
    /\ WF_vars(CancelNext)
    /\ WF_vars(TrioRelease)
    /\ WF_vars(TrioRecv)
    /\ WF_vars(\E c \in Costs : DropGuard(Caller.C, c))

\* C arrives fairer than the waiting B: A has taken its guard before B calls, B
\* gets a start_tag above virtual_time and waits in the backlog, C calls while
\* A holds the guard and gets a start_tag below B's, and A drops its guard
\* after C has called
EvictNext ==
    \/ nextId = Caller.A /\ TrioAcquire
    \/ /\ nextId = Caller.B
       /\ result[Caller.A] = "guard"
       /\ TrioAcquire
       /\ last'.start_tag > virtual_time
    \/ /\ nextId = Caller.C
       /\ guard[Caller.A].state = "live"
       /\ Len(backlog) = 1
       /\ backlog[1].id = Caller.B
       /\ TrioAcquire
       /\ last'.start_tag < backlog[1].start_tag
    \/ TrioRecv
    \/ nextId \notin TrioIds /\ \E c \in Costs : DropGuard(Caller.A, c)
    \/ \E c \in Costs : DropGuard(Caller.C, c)
    \/ TrioRelease

EvictSpec ==
    /\ TrioInit({1})
    /\ [][EvictNext]_vars
    /\ WF_vars(EvictNext)
    /\ WF_vars(TrioRelease)
    /\ WF_vars(TrioRecv)
    /\ WF_vars(\E c \in Costs : DropGuard(Caller.C, c))

\* ----------------------------------------------------------------- claims
Ids(bl) == {bl[i].id : i \in 1..Len(bl)}
Tags(bl) == {bl[i].start_tag : i \in 1..Len(bl)}
LargestTag(bl) == CHOOSE t \in Tags(bl) : \A u \in Tags(bl) : u <= t
SmallestTag(bl) == CHOOSE t \in Tags(bl) : \A u \in Tags(bl) : t <= u
Entries(bl) == {bl[i] : i \in 1..Len(bl)}
LiveGuards == {r \in ReqIds : guard[r].state = "live"}
DroppedGuards == {r \in ReqIds : guard[r].state = "dropped"}

\* C1: in every reachable state 0 <= serving <= depth.
ServingWithinDepth == 0 <= serving /\ serving <= depth

\* all slots taken, a request waiting, after a release has already run
ServingWithinDepthWitness ==
    /\ depth >= 1
    /\ serving = depth
    /\ backlog # <<>>
    /\ \E r \in ReqIds : releases[r] = 1

\* C2: in every reachable state the backlog holds at most backlog_cap requests.
BacklogWithinCap == Len(backlog) <= backlog_cap

\* a full backlog right after an acquire that evicted a waiter to get in
BacklogWithinCapWitness ==
    /\ backlog_cap >= 1
    /\ Len(backlog) = backlog_cap
    /\ last.op = "acquire"
    /\ last.evicted # 0

\* C3: virtual_time never decreases: no step of the scheduler, whether an
\* immediate dispatch in acquire or a pickup in release, lowers it.
VirtualTimeMonotonic == [][virtual_time' >= virtual_time]_vars

\* a pickup from the backlog has moved virtual_time forward
VirtualTimeMonotonicWitness ==
    /\ last.op = "release"
    /\ last.picked.id # 0
    /\ virtual_time > last.virtual_time

\* C4: serving counts exactly the guards created by dispatch whose release has
\* not run yet (guards alive plus guards dropped with their release task
\* pending), and release runs exactly once per dropped guard.
SlotAccountingExact ==
    /\ serving = Cardinality(LiveGuards) + Cardinality(tasks)
    /\ {t.id : t \in tasks} = DroppedGuards
    /\ \A r \in ReqIds : releases[r] = IF guard[r].state = "released" THEN 1 ELSE 0

\* one guard released, the next one dropped with its release still pending
SlotAccountingExactWitness ==
    /\ \E r \in ReqIds : releases[r] = 1
    /\ \E r \in ReqIds : guard[r].state = "dropped"
    /\ serving = 1

\* C5: under a fair executor every dropped guard is eventually released, once,
\* and when the callers drop all their guards the scheduler ends up with
\* serving = 0 and no release task pending.
\* (A guard leaves the state "dropped" only by its release, so a run that ends
\* with no guard alive or dropped has released every dropped guard.)
NoSlotLeaked ==
    <>[](/\ serving = 0
         /\ tasks = {}
         /\ \A r \in ReqIds :
               /\ guard[r].state \in {"none", "released"}
               /\ releases[r] = IF guard[r].state = "released" THEN 1 ELSE 0)

\* every call was made, a waiter was served from the backlog, all is released
NoSlotLeakedWitness ==
    /\ nextId > MaxReq
    /\ lastPickup >= 0
    /\ \E r \in ReqIds : releases[r] = 1
    /\ LiveGuards = {} /\ serving = 0 /\ tasks = {}

\* C6 (as claimed): acquire returns Overloaded exactly when the backlog is at
\* its cap and the new start_tag is >= the largest start_tag waiting; in every
\* other case the request is admitted.
OverloadedIffFullAndNotFairer ==
    last.op = "acquire" =>
        /\ (last.out = "overloaded") <=>
              /\ Len(last.backlog) >= backlog_cap
              /\ last.backlog # <<>>
              /\ last.start_tag >= LargestTag(last.backlog)
        /\ last.out # "overloaded" => last.out = "admitted"

\* C7: an acquire that finds the backlog full with a largest start_tag above
\* its own evicts exactly one entry, one with the largest start_tag, and is
\* admitted in its place; the evicted caller is never given a guard or
\* Overloaded, what it can observe is Canceled.
EvictionReplacesWorst ==
    /\ (/\ last.op = "acquire"
        /\ Len(last.backlog) >= backlog_cap
        /\ last.backlog # <<>>
        /\ last.start_tag < LargestTag(last.backlog))
       => /\ last.out = "admitted"
          /\ \E v \in Entries(last.backlog) :
                /\ v.id = last.evicted
                /\ v.start_tag = LargestTag(last.backlog)
                /\ Ids(backlog) = (Ids(last.backlog) \ {v.id}) \cup {last.id}
          /\ Len(backlog) = Len(last.backlog)
    /\ \A r \in ReqIds :
          (chan[r] = "closed" /\ guard[r].state = "none")
             => result[r] \in {"pending", "canceled", "abandoned"}

\* two requests were waiting, the arrival evicted the worse of them, and the
\* evicted caller has observed Canceled
EvictionReplacesWorstWitness ==
    /\ last.op = "acquire"
    /\ last.evicted # 0
    /\ Len(last.backlog) = 2
    /\ SmallestTag(last.backlog) < LargestTag(last.backlog)
    /\ result[last.evicted] = "canceled"

\* C8 (as claimed): with backlog_cap = 0 an acquire that finds serving = depth
\* is rejected with Overloaded.
ZeroCapRejectsWhenBusy ==
    (last.op = "acquire" /\ backlog_cap = 0 /\ last.serving = depth)
        => last.out = "overloaded"

\* C9 (as claimed): an acquire that finds a free slot is dispatched at once: it
\* is not rejected, not enqueued and evicts nobody.
FreeSlotDispatches ==
    (last.op = "acquire" /\ last.serving < depth)
        => /\ last.out = "admitted"
           /\ last.evicted = 0
           /\ backlog = last.backlog
           /\ serving = last.serving + 1
           /\ guard[last.id].state # "none"

\* C10: a pickup removes an entry whose start_tag is the smallest of the
\* backlog, and the start tags of the requests dispatched from the backlog
\* never decrease over the run.
PickupInTagOrder ==
    /\ (last.op = "release" /\ last.backlog # <<>>)
          => /\ last.picked \in Entries(last.backlog)
             /\ last.picked.start_tag = SmallestTag(last.backlog)
             /\ Ids(backlog) = Ids(last.backlog) \ {last.picked.id}
             /\ lastPickup = last.picked.start_tag
    /\ lastPickup >= last.lastPickup

\* a pickup chose between two waiters with different start tags
PickupInTagOrderWitness ==
    /\ last.op = "release"
    /\ Len(last.backlog) = 2
    /\ SmallestTag(last.backlog) < LargestTag(last.backlog)
    /\ last.picked.id # 0

ThreeOutcomes ==
    \A r \in ReqIds :
        /\ result[r] \in {"none", "pending", "abandoned", "guard", "overloaded", "canceled"}
        /\ result[r] = "overloaded" =>
              chan[r] = "none" /\ guard[r].state = "none" /\ r \notin Ids(backlog)
        /\ result[r] = "canceled" => chan[r] = "closed" /\ guard[r].state = "none"
        /\ result[r] = "guard" => chan[r] = "taken" /\ guard[r].state # "none"

\* C13: service is not preemptive.  A request in the backlog has no guard yet,
\* so an eviction, which takes its victim from the backlog, removes a request
\* still waiting; a guard alive holds one of the serving slots and stays alive
\* until its holder drops it; serving goes down only by one, in the release
\* of a guard that was dropped before.
NonPreemptive ==
    /\ [](/\ \A r \in Ids(backlog) : guard[r].state = "none" /\ chan[r] = "open"
          /\ last.op = "acquire" /\ last.evicted # 0 =>
                /\ last.evicted \in Ids(last.backlog)
                /\ guard[last.evicted].state = "none"
                /\ serving >= last.serving
          /\ serving >= Cardinality(LiveGuards)
          /\ \A r \in LiveGuards : releases[r] = 0 /\ chan[r] \in {"sent", "taken"})
    /\ [][/\ \A r \in LiveGuards :
                \/ guard'[r].state = "live"
                \/ /\ guard'[r].state = "dropped"
                   /\ result[r] = "guard" \/ result'[r] = "abandoned"
                   /\ serving' = serving
          /\ serving' < serving =>
                /\ last'.op = "release"
                /\ guard[last'.id].state = "dropped"
                /\ serving' = serving - 1]_vars

\* an arrival evicted a waiter while a guard was alive, and the guard is still
\* alive with its slot counted
NonPreemptiveWitness ==
    /\ last.op = "acquire"
    /\ last.evicted # 0
    /\ LiveGuards # {}
    /\ serving = Cardinality(LiveGuards)
    /\ \E r \in LiveGuards : result[r] = "guard"

\* C14 (as claimed): once the only guard in service is dropped and its release
\* has run with no release task left pending, serving is 0 and the backlog is
\* as long as the release found it.
DropRestoresIdle ==
    (last.op = "release" /\ last.serving = 1 /\ tasks = {})
        => serving = 0 /\ Len(backlog) = Len(last.backlog)

\* C14 (amended): a release that finds the backlog empty lowers serving by
\* one, to 0 when the dropped guard was the only one in service, and leaves
\* the backlog empty; a release that finds a request waiting dispatches it:
\* serving is what it was before the release and the backlog is one shorter.
DropRestoresIdleOrPicksUp ==
    last.op = "release" =>
        IF last.backlog = <<>>
        THEN /\ serving = last.serving - 1
             /\ last.serving = 1 => serving = 0
             /\ backlog = <<>>
             /\ last.picked.id = 0
        ELSE /\ serving = last.serving
             /\ Len(backlog) = Len(last.backlog) - 1
             /\ last.picked.id # 0

\* at quiescence after the release of the only guard in service, which found a
\* request waiting: the slot is taken again and the backlog is shorter
DropRestoresIdleOrPicksUpWitness ==
    /\ last.op = "release"
    /\ last.serving = 1
    /\ tasks = {}
    /\ last.backlog # <<>>
    /\ serving = 1
    /\ Len(backlog) < Len(last.backlog)

\* C15 (as claimed): with depth = 0 no guard is ever made, serving and
\* virtual_time stay 0, and every acquire call made so far was rejected
\* (Overloaded at once, or evicted from the backlog, which its caller observes
\* as Canceled) or is still waiting in the backlog.
DepthZeroNeverServes ==
    depth = 0 =>
        /\ serving = 0
        /\ virtual_time = 0
        /\ tasks = {}
        /\ \A r \in ReqIds :
              /\ guard[r].state = "none"
              /\ \/ result[r] = "none" /\ r >= nextId
                 \/ result[r] = "overloaded"
                 \/ /\ chan[r] = "closed"
                    /\ result[r] \in {"pending", "canceled", "abandoned"}
                 \/ /\ r \in Ids(backlog)
                    /\ chan[r] = "open"
                    /\ result[r] \in {"pending", "abandoned"}

\* C16: every acquire with weight >= 1 leaves its flow with
\* finish_tag - start_tag = max(cost_avg div weight, 1) >= 1, whatever cost_avg
\* is, and takes a start_tag that is at least the finish tag of the flow's
\* previous request; so the requests of one flow get start tags that differ,
\* as those of them that wait in the backlog show.
TagWidthAtLeastOne ==
    /\ [](\A i, j \in 1..Len(backlog) :
            (i # j /\ backlog[i].flow_id = backlog[j].flow_id)
                => backlog[i].start_tag # backlog[j].start_tag)
    /\ [][nextId' # nextId =>
            \A w \in Weights :
                Acquire(last'.flow_id, w) =>
                    LET f == last'.flow_id
                        known == f \in DOMAIN flows
                        cost_avg == IF known THEN flows[f].cost_avg ELSE 0
                        previous == IF known THEN flows[f].previous_finish_tag ELSE 0
                        quotient == cost_avg \div w
                        width == flows'[f].previous_finish_tag - last'.start_tag
                    IN  /\ width = (IF quotient >= 1 THEN quotient ELSE 1)
                        /\ width >= 1
                        /\ last'.start_tag >= previous
                        /\ flows'[f].previous_finish_tag > previous]_vars

\* a flow whose cost_avg is 0 has made a further request: it starts at 1 or
\* later and is one wide
TagWidthAtLeastOneWitness ==
    /\ last.op = "acquire"
    /\ last.start_tag >= 1
    /\ flows[last.flow_id].cost_avg = 0
    /\ flows[last.flow_id].previous_finish_tag = last.start_tag + 1
    /\ \E r \in ReqIds : r < last.id /\ guard[r].flow_id = last.flow_id

\* the order test_eq_cost_eq_weight_normal asserts, as (flow, index) pairs
NormalOrder ==
    << <<1, 0>>, <<1, 1>>, <<2, 0>>, <<3, 0>>, <<1, 2>>, <<2, 1>>, <<3, 1>>, <<1, 3>>,
       <<2, 2>>, <<3, 2>>, <<1, 4>>, <<2, 3>>, <<3, 3>>, <<2, 4>>, <<3, 4>> >>

\* the number of the call that is request index of flow
TestId(flow, index) == (flow - 1) * TestIter + index + 1

\* the calls a guard was made for so far
Granted == {r \in TestIds : guard[r].state # "none"}

\* C17: in the scenario of test_eq_cost_eq_weight_normal (backlog_cap = 15,
\* depth = 2, three flows with 5 weight-1 requests each, all submitted before a
\* guard is released) no request is rejected or cancelled, and the guards are
\* made one at a time in the order (1,0) (1,1) (2,0) (3,0) (1,2) (2,1) (3,1)
\* (1,3) (2,2) (3,2) (1,4) (2,3) (3,3) (2,4) (3,4), up to the last of them.
RoundRobinOrder ==
    /\ [](/\ \A r \in TestIds :
                /\ result[r] \notin {"overloaded", "canceled", "panic"}
                /\ chan[r] # "closed"
          /\ \E k \in 0..Len(NormalOrder) :
                Granted = {TestId(NormalOrder[i][1], NormalOrder[i][2]) : i \in 1..k})
    /\ [][Cardinality(Granted') <= Cardinality(Granted) + 1]_vars
    /\ <>(\A r \in TestIds : result[r] = "guard")

\* every guard of the scenario was granted, taken and released
RoundRobinOrderWitness ==
    /\ backlog_cap = NormalCap
    /\ Granted = TestIds
    /\ \A r \in TestIds : result[r] = "guard" /\ releases[r] = 1
    /\ serving = 0

\* the requests test_eq_cost_eq_weight_overload asserts to succeed
OverloadServed ==
    {TestId(1, i) : i \in 0..4} \cup {TestId(2, i) : i \in 0..3} \cup {TestId(3, i) : i \in 0..2}

\* C18: in the scenario of test_eq_cost_eq_weight_overload (backlog_cap = 10,
\* depth = 2, three flows with 5 weight-1 requests each in flow order, all
\* submitted before a guard is released) the 5 requests of flow 1, the first 4
\* of flow 2 and the first 3 of flow 3 get a guard, each of them in the end;
\* the 5th of flow 2 and the 4th and 5th of flow 3 fail and never get one.
OverloadOutcome ==
    /\ [](\A r \in TestIds \ OverloadServed :
              /\ guard[r].state = "none"
              /\ result[r] \in {"none", "pending", "overloaded", "canceled"})
    /\ [](\A r \in OverloadServed :
              result[r] \in {"none", "pending", "guard"} /\ chan[r] # "closed")
    /\ <>[](/\ \A r \in OverloadServed : result[r] = "guard" /\ releases[r] = 1
            /\ \A r \in TestIds \ OverloadServed : result[r] \in {"overloaded", "canceled"})

\* the scenario has run to its end: the 5th request of flow 2 was evicted and
\* saw Canceled, the 4th and 5th of flow 3 were turned away with Overloaded,
\* the others were served and released
OverloadOutcomeWitness ==
    /\ backlog_cap = OverloadCap
    /\ result[TestId(2, 4)] = "canceled"
    /\ result[TestId(3, 3)] = "overloaded"
    /\ result[TestId(3, 4)] = "overloaded"
    /\ \A r \in OverloadServed : releases[r] = 1
    /\ serving = 0

\* C19 (as claimed): with depth = 1, A holding the guard and B having dropped
\* the future of its waiting call, the release of A's guard finds no waiter to
\* pick up, B observes Canceled, and the call C makes afterwards gets a guard.
CancelFindsNoWaiter ==
    /\ []((last.op = "release" /\ last.id = Caller.A) =>
              last.picked.id = 0 /\ serving = 0)
    /\ <>(result[Caller.B] = "canceled")
    /\ <>(result[Caller.C] = "guard")

\* C19 (amended): the release of A's guard finds B's entry still in the
\* backlog and dispatches it: the slot is taken again and virtual_time is B's
\* start_tag; the guard made for B is destroyed at once, its receiver being
\* gone, and its own release frees the slot.  B, whose future is dropped, never
\* observes Canceled or anything else.  The call C makes after the release of
\* A's guard is admitted and in the end gets a guard, and the slot is free
\* again when that guard is released.
CancelFreesSlotBySecondRelease ==
    /\ []((last.op = "release" /\ last.id = Caller.A) =>
              /\ last.picked.id = Caller.B
              /\ Ids(last.backlog) = {Caller.B}
              /\ serving = 1
              /\ virtual_time = last.picked.start_tag
              /\ chan[Caller.B] = "closed"
              /\ guard[Caller.B].state \in {"dropped", "released"})
    /\ [](result[Caller.B] \in {"none", "pending", "abandoned"})
    /\ [](result[Caller.C] \in {"none", "pending", "guard"})
    /\ <>[](/\ result[Caller.B] = "abandoned"
            /\ result[Caller.C] = "guard"
            /\ \A r \in TrioIds : releases[r] = 1
            /\ serving = 0
            /\ backlog = <<>>)

\* C called while the guard made for B still held the slot, waited in the
\* backlog and was served by the release of that guard
CancelFreesSlotBySecondReleaseWitness ==
    /\ result[Caller.B] = "abandoned"
    /\ last.op = "release"
    /\ last.id = Caller.B
    /\ last.picked.id = Caller.C
    /\ result[Caller.C] = "guard"

\* C20: with backlog_cap = 1 and depth = 1, A holding the slot and B waiting in
\* the backlog, a C that arrives with a start_tag below B's evicts B and takes
\* its place in the backlog; B gets no guard and observes Canceled; the release
\* of A's guard dispatches C, which gets its guard.
EvictedWaiterGivesWay ==
    /\ []((last.op = "acquire" /\ last.id = Caller.C) =>
              /\ last.out = "admitted"
              /\ Ids(last.backlog) = {Caller.B}
              /\ last.start_tag < LargestTag(last.backlog)
              /\ last.evicted = Caller.B
              /\ Ids(backlog) = {Caller.C}
              /\ serving = 1)
    /\ [](result[Caller.C] # "none" =>
              /\ chan[Caller.B] = "closed"
              /\ guard[Caller.B].state = "none"
              /\ result[Caller.B] \in {"pending", "canceled"}
              /\ result[Caller.C] \in {"pending", "guard"})
    /\ []((last.op = "release" /\ last.id = Caller.A) =>
              /\ last.picked.id = Caller.C
              /\ guard[Caller.C].state # "none"
              /\ backlog = <<>>)
    /\ <>[](result[Caller.B] = "canceled" /\ result[Caller.C] = "guard")

\* B has seen Canceled, the release of A's guard has dispatched C and C has
\* taken its guard
EvictedWaiterGivesWayWitness ==
    /\ backlog_cap = 1
    /\ result[Caller.B] = "canceled"
    /\ last.op = "release"
    /\ last.id = Caller.A
    /\ last.picked.id = Caller.C
    /\ result[Caller.C] = "guard"

\* C21 (as claimed): in no reachable state do two backlog entries carry the
\* same start_tag.
UniqueStartTags ==
    \A i, j \in 1..Len(backlog) :
        i # j => backlog[i].start_tag # backlog[j].start_tag

\* C21 (amended): the backlog is in start_tag order; two entries of one flow
\* never carry the same start_tag, entries of different flows may, and then
\* they stay in the order they arrived; a request that is enqueued without an
\* eviction removes no entry, whatever its start_tag.
TiesKeptInArrivalOrder ==
    /\ \A i, j \in 1..Len(backlog) :
          i < j => /\ backlog[i].start_tag <= backlog[j].start_tag
                   /\ backlog[i].start_tag = backlog[j].start_tag =>
                         /\ backlog[i].flow_id # backlog[j].flow_id
                         /\ backlog[i].id < backlog[j].id
    /\ (/\ last.op = "acquire"
        /\ last.out = "admitted"
        /\ last.evicted = 0
        /\ last.serving >= depth)
          => /\ Ids(backlog) = Ids(last.backlog) \cup {last.id}
             /\ Len(backlog) = Len(last.backlog) + 1

\* a request was enqueued behind a waiter of another flow with its start_tag
TiesKeptInArrivalOrderWitness ==
    /\ last.op = "acquire"
    /\ last.out = "admitted"
    /\ last.id \in Ids(backlog)
    /\ \E i \in 1..Len(last.backlog) : last.backlog[i].start_tag = last.start_tag
    /\ \E i, j \in 1..Len(backlog) :
          /\ i < j
          /\ backlog[i].start_tag = backlog[j].start_tag
          /\ backlog[j].id = last.id

\* the calls of the burst, the place of a call in its flow's burst, and the
\* calls of the burst that have a guard made
BurstIds == NeIds \ NeWarmIds
BurstIndex(id) == (id - Len(NeCostMs) - 1) % BurstIter
BurstGranted == {r \in BurstIds : guard[r].state # "none"}

\* the place of request index of flow in the round-robin of three flows with
\* two slots: the first two requests of flow 1 go first, then the flows take
\* turns, flow 1 one request ahead
RoundRobinKey(flow, index) ==
    IF flow = 1
    THEN IF index <= 1 THEN index ELSE 4 * index + 1
    ELSE 4 * (index + 1) + flow

\* C22: the tag increment of a request is max(cost_avg div weight, 1), so more
\* weight never gives a larger increment and more cost_avg never a smaller one,
\* and flows with equal cost_avg / weight get the same increment: in the burst
\* of test_ne_cost_ne_weight_normal (learned costs in the ratio 3 : 2 : 1,
\* weights 3, 2, 1) every request is one and the same increment wide, and the
\* guards are made in the round-robin order that test_eq_cost_eq_weight_normal
\* asserts for equal costs and weights.
WeightCompensatesCost ==
    /\ [](\A c \in 0..20, w \in 1..5 :
            /\ FinishTag(0, c, w + 1) <= FinishTag(0, c, w)
            /\ FinishTag(0, c + 1, w) >= FinishTag(0, c, w)
            /\ FinishTag(0, c * w, w) = FinishTag(0, c, 1))
    /\ [](\A i, j \in 1..Len(NormalOrder) :
            i < j => RoundRobinKey(NormalOrder[i][1], NormalOrder[i][2])
                        < RoundRobinKey(NormalOrder[j][1], NormalOrder[j][2]))
    /\ [](\A r \in BurstGranted, q \in BurstIds :
            RoundRobinKey(NeFlowOf(q), BurstIndex(q)) < RoundRobinKey(NeFlowOf(r), BurstIndex(r))
                => q \in BurstGranted)
    /\ [][/\ Cardinality(BurstGranted') <= Cardinality(BurstGranted) + 1
          /\ (nextId \in BurstIds /\ nextId' # nextId) =>
                LET f == NeFlowOf(nextId)
                    w == NeWeights[f]
                    width == flows'[f].previous_finish_tag - last'.start_tag
                IN  /\ width >= 1
                    /\ width * w <= flows[f].cost_avg
                    /\ flows[f].cost_avg < (width + 1) * w
                    /\ \A g \in DOMAIN flows :
                          /\ flows[g].cost_avg * w = flows[f].cost_avg * NeWeights[g]
                          /\ FinishTag(0, flows[g].cost_avg, NeWeights[g]) = width
                          /\ flows[g].cost_avg >= flows[f].cost_avg =>
                                FinishTag(0, flows[g].cost_avg, w) >= width
                          /\ NeWeights[g] >= w =>
                                FinishTag(0, flows[f].cost_avg, NeWeights[g]) <= width]_vars
    /\ <>(\A r \in BurstIds : result[r] = "guard")

\* the burst has run to its end with the learned costs still 3 : 2 : 1
WeightCompensatesCostWitness ==
    /\ DOMAIN result = NeIds
    /\ nextId \notin NeIds
    /\ last.op = "acquire"
    /\ flows[1].cost_avg = 3 * flows[3].cost_avg
    /\ flows[2].cost_avg = 2 * flows[3].cost_avg
    /\ flows[3].cost_avg >= 1
    /\ flows[1].previous_finish_tag > flows[1].cost_avg

\* the order test_ne_cost_eq_weight_normal asserts, as (flow, index) pairs
NeEqOrder ==
    << <<1, 0>>, <<1, 1>>, <<2, 0>>, <<3, 0>>, <<3, 1>>, <<2, 1>>, <<3, 2>>, <<1, 2>>,
       <<3, 3>>, <<2, 2>>, <<3, 4>>, <<3, 5>>, <<1, 3>>, <<2, 3>>, <<3, 6>>, <<3, 7>>,
       <<2, 4>>, <<3, 8>>, <<1, 4>>, <<3, 9>>, <<2, 5>>, <<1, 5>>, <<2, 6>>, <<2, 7>>,
       <<1, 6>>, <<2, 8>>, <<1, 7>>, <<2, 9>>, <<1, 8>>, <<1, 9>> >>

\* the number of the call that is request index of flow in the burst
BurstId(flow, index) == Len(NeCostMs) + (flow - 1) * BurstIter + index + 1

\* the first k requests of that order, and how many requests of a flow a set
\* of calls holds
EqPrefix(k) == {BurstId(NeEqOrder[i][1], NeEqOrder[i][2]) : i \in 1..k}
OfFlow(S, f) == Cardinality({r \in S : NeFlowOf(r) = f})

\* the dispatches that follow the first k1 of the order in this state, seen
\* for a lighter flow f and a heavier flow g that both still had a request
\* waiting when the last of them was made; two requests are dispatched before
\* the flows are backlogged
PacedWindows(slack) ==
    LET k2 == Cardinality(BurstGranted)
    IN  \A k1 \in 2..k2, f, g \in DOMAIN NeCostMs :
            (/\ k1 < k2
             /\ NeCostMs[f] < NeCostMs[g]
             /\ \E r \in BurstIds \ EqPrefix(k2 - 1) : NeFlowOf(r) = f
             /\ \E r \in BurstIds \ EqPrefix(k2 - 1) : NeFlowOf(r) = g)
                => OfFlow(BurstGranted \ EqPrefix(k1), f) + slack
                      >= OfFlow(BurstGranted \ EqPrefix(k1), g)

\* what the burst of test_ne_cost_eq_weight_normal does whatever the windows
\* show: the guards are made in the order the test asserts, a request of the
\* burst is as wide as the learned cost of its flow, less for a lighter flow,
\* and a heavier flow has requests left for as long as a lighter one has
PacedOut ==
    /\ [](\E k \in 0..Len(NeEqOrder) : BurstGranted = EqPrefix(k))
    /\ [](\A f, g \in DOMAIN NeCostMs :
            (/\ NeCostMs[f] < NeCostMs[g]
             /\ \A r \in BurstIds : NeFlowOf(r) = g => r \in BurstGranted)
                => \A r \in BurstIds : NeFlowOf(r) = f => r \in BurstGranted)
    /\ [][(nextId \in BurstIds /\ nextId' # nextId) =>
            LET f == NeFlowOf(nextId)
                width == flows'[f].previous_finish_tag - last'.start_tag
            IN  /\ width = flows[f].cost_avg
                /\ width * 5 = NeCostMs[f] * 1000
                /\ \A g \in DOMAIN flows :
                      NeCostMs[g] < NeCostMs[f] =>
                          FinishTag(0, flows[g].cost_avg, EqWeights[g]) < width]_vars
    /\ <>(\A r \in BurstIds : result[r] = "guard")

NormalPrefix(k) == {TestId(NormalOrder[i][1], NormalOrder[i][2]) : i \in 1..k}

StartTagPulledUp ==
    /\ [](\A i \in 1..Len(backlog) : backlog[i].start_tag >= virtual_time)
    /\ [](last.op = "acquire" => last.start_tag >= last.virtual_time)
    /\ [][nextId' # nextId =>
            LET f == last'.flow_id
                previous == IF f \in DOMAIN flows THEN flows[f].previous_finish_tag ELSE 0
            IN  /\ last'.virtual_time = virtual_time
                /\ last'.start_tag >= virtual_time
                /\ last'.start_tag >= previous
                /\ last'.start_tag \in {virtual_time, previous}
                /\ previous < virtual_time => last'.start_tag = virtual_time]_vars

\* virtual_time has moved on and a flow that made none of the earlier calls
\* starts at virtual_time, not at 0
StartTagPulledUpWitness ==
    /\ last.op = "acquire"
    /\ last.virtual_time >= 1
    /\ last.start_tag = last.virtual_time
    /\ \A r \in ReqIds :
          r < last.id => guard[r].state # "none" /\ guard[r].flow_id # last.flow_id

\* C27: an acquire that returns Overloaded leaves backlog, serving,
\* virtual_time, every channel, guard and release task, and every flow's
\* cost_avg as they were; the flow of the call has an entry afterwards
\* (created with cost_avg 0 if it had none) and its previous_finish_tag is
\* the finish tag computed for the rejected request, above its start tag;
\* no other flow is touched.
OverloadedKeepsQueueAdvancesTag ==
    [][(nextId' # nextId /\ last'.out = "overloaded") =>
         LET f == last'.flow_id
             flow == IF f \in DOMAIN flows THEN flows[f] ELSE FlowDefault
         IN  /\ backlog' = backlog
             /\ serving' = serving
             /\ virtual_time' = virtual_time
             /\ chan' = chan /\ guard' = guard /\ tasks' = tasks
             /\ DOMAIN flows' = DOMAIN flows \cup {f}
             /\ \A g \in DOMAIN flows : flows'[g].cost_avg = flows[g].cost_avg
             /\ \A g \in DOMAIN flows \ {f} : flows'[g] = flows[g]
             /\ flows'[f].cost_avg = flow.cost_avg
             /\ flows'[f].previous_finish_tag > last'.start_tag
             /\ flows'[f].previous_finish_tag > flow.previous_finish_tag
             /\ \E weight \in Weights :
                  flows'[f].previous_finish_tag =
                      last'.start_tag + Max(flow.cost_avg \div weight, 1)]_vars

\* the first call of a flow is rejected while every earlier request, all of
\* other flows, still waits in the backlog: the flow has an entry all the same
OverloadedKeepsQueueAdvancesTagWitness ==
    /\ last.op = "acquire"
    /\ last.out = "overloaded"
    /\ last.id > 1
    /\ backlog = last.backlog
    /\ \A r \in ReqIds : r < last.id =>
          \E i \in 1..Len(backlog) :
              backlog[i].id = r /\ backlog[i].flow_id # last.flow_id
    /\ last.flow_id \in DOMAIN flows
    /\ flows[last.flow_id].previous_finish_tag > last.start_tag

\* C28: a flow entry is never removed and its previous_finish_tag never
\* decreases; an acquire raises the previous_finish_tag of its own flow by at
\* least 1 whatever it returns (a new entry starts above 0) and leaves every
\* other flow's alone, the evicted request's flow included; every other step
\* (a release with its pickup and dispatch, a receive, a dropped guard or
\* future) leaves every previous_finish_tag as it was.
FinishTagOnlyRaisedByAcquire ==
    [][/\ DOMAIN flows \subseteq DOMAIN flows'
       /\ \A f \in DOMAIN flows :
             flows'[f].previous_finish_tag >= flows[f].previous_finish_tag
       /\ nextId' # nextId =>
             LET f == last'.flow_id
                 previous == IF f \in DOMAIN flows
                             THEN flows[f].previous_finish_tag ELSE 0
             IN  /\ f \in DOMAIN flows'
                 /\ flows'[f].previous_finish_tag >= previous + 1
                 /\ \A g \in DOMAIN flows' \ {f} :
                       /\ g \in DOMAIN flows
                       /\ flows'[g].previous_finish_tag = flows[g].previous_finish_tag
       /\ nextId' = nextId =>
             /\ DOMAIN flows' = DOMAIN flows
             /\ \A f \in DOMAIN flows :
                   flows'[f].previous_finish_tag = flows[f].previous_finish_tag]_vars

\* a release has updated the cost estimate of a flow and picked up a waiter,
\* in a run where an acquire was rejected
FinishTagOnlyRaisedByAcquireWitness ==
    /\ last.op = "release"
    /\ last.picked.id # 0
    /\ flows[last.flow_id].cost_avg > 0
    /\ flows[last.flow_id].previous_finish_tag >= 1
    /\ \E r \in ReqIds : result[r] = "overloaded"

\* C29: a release of a guard of flow f with measured cost c is one step that
\* sets cost_avg of f to (4 * cost_avg + c) div 5, changes no other field of
\* any flow (no previous_finish_tag, no other cost_avg), and then either
\* finds the backlog empty and leaves serving one lower, or removes exactly
\* the first backlog entry, whose start_tag no other entry is below, sets
\* virtual_time to that start_tag and leaves serving as it was (one slot
\* freed, one taken); no second entry is picked up.
ReleaseSmoothsFreesPicksOne ==
    [][releases' # releases =>
         \E t \in tasks :
            /\ t.id = last'.id /\ t.flow_id = last'.flow_id
            /\ t \notin tasks'
            /\ releases' = [releases EXCEPT ![t.id] = @ + 1]
            /\ DOMAIN flows' = DOMAIN flows
            /\ t.flow_id \in DOMAIN flows
            /\ flows'[t.flow_id].cost_avg =
                   (4 * flows[t.flow_id].cost_avg + t.cost) \div 5
            /\ \A g \in DOMAIN flows :
                  /\ flows'[g].previous_finish_tag = flows[g].previous_finish_tag
                  /\ g # t.flow_id => flows'[g] = flows[g]
            /\ IF backlog = <<>>
               THEN /\ backlog' = backlog
                    /\ serving' = serving - 1
                    /\ virtual_time' = virtual_time
                    /\ last'.picked = NoRequest
               ELSE /\ backlog' = Tail(backlog)
                    /\ last'.picked = Head(backlog)
                    /\ \A i \in 1..Len(backlog) :
                          backlog[i].start_tag >= last'.picked.start_tag
                    /\ virtual_time' = last'.picked.start_tag
                    /\ guard'[last'.picked.id].state # "none"
                    /\ serving' = serving]_vars

\* a release with measured cost 10 has brought the estimate of its flow from
\* 0 to 2 and picked up the first of two waiters, leaving the second
ReleaseSmoothsFreesPicksOneWitness ==
    /\ last.op = "release"
    /\ Len(last.backlog) = 2
    /\ Len(backlog) = 1
    /\ last.picked = Head(last.backlog)
    /\ flows[last.flow_id].cost_avg = 2
    /\ serving = last.serving

\* C30: the lock is never held by a caller that waits on its channel: a
\* holder is either an acquire call that has not yet run its locked section
\* or a release task that has not yet run; so whenever callers wait, the lock
\* is free or its holder can take its next step, a release task that finds
\* the lock free can take it, and in the end every release task has run and
\* the lock is free.
WaitersHoldNoLock ==
    /\ [](lock.kind \in {"free", "acquire", "release"})
    /\ [](lock.kind = "acquire" => lock.id = nextId /\ result[lock.id] = "none")
    /\ [](lock.kind = "release" =>
             \E t \in tasks : t.id = lock.id /\ guard[t.id].state = "dropped")
    /\ [](\A r \in ReqIds : result[r] = "pending" => lock.id # r \/ lock.kind = "release")
    /\ []((\E r \in ReqIds : result[r] = "pending") =>
             /\ lock = Unlocked \/ ENABLED (LockedAcquire \/ RunLockedRelease)
             /\ (lock = Unlocked /\ tasks # {}) => ENABLED TakeLockToRelease)
    /\ <>[](lock = Unlocked /\ tasks = {})

\* a release task holds the lock while two callers wait on their channels
WaitersHoldNoLockWitness ==
    /\ lock.kind = "release"
    /\ \E r1, r2 \in ReqIds :
          /\ r1 # r2
          /\ result[r1] = "pending" /\ chan[r1] = "open"
          /\ result[r2] = "pending" /\ chan[r2] = "open"

\* C31: when a release picks up a request whose caller has dropped its
\* future, the guard is made and destroyed in that same locked step: the slot
\* stays counted (serving is what it was before the release), a release task
\* for the request is spawned and has not run, and only that one entry has
\* left the backlog.  Each such task later frees the slot and picks up the
\* next entry, so in the end the backlog is empty, no release task is left
\* and no caller is still waiting.
GoneReceiverDrainsByOwnRelease ==
    /\ [][(releases' # releases /\ last'.picked.id # 0
              /\ result[last'.picked.id] = "abandoned") =>
            LET id == last'.picked.id
            IN  /\ last'.picked = Head(backlog)
                /\ backlog' = Tail(backlog)
                /\ serving' = serving
                /\ virtual_time' = last'.picked.start_tag
                /\ guard'[id].state = "dropped"
                /\ chan'[id] = "closed"
                /\ releases'[id] = 0
                /\ \E t \in tasks' \ tasks :
                      t.id = id /\ t.flow_id = last'.picked.flow_id
                /\ lock' = Unlocked]_vars
    /\ [](\A r \in ReqIds : guard[r].state = "dropped" => \E t \in tasks : t.id = r)
    /\ <>[](backlog = <<>> /\ tasks = {} /\ \A r \in ReqIds : result[r] # "pending")

\* a release has picked up an abandoned waiter: its guard is destroyed, its
\* release task waits to run, and a live waiter is still in the backlog
GoneReceiverDrainsByOwnReleaseWitness ==
    /\ last.op = "release"
    /\ last.picked.id # 0
    /\ result[last.picked.id] = "abandoned"
    /\ guard[last.picked.id].state = "dropped"
    /\ \E t \in tasks : t.id = last.picked.id
    /\ serving = depth
    /\ Len(backlog) = 1
    /\ result[backlog[1].id] = "pending" /\ chan[backlog[1].id] = "open"

\* C32: in the run of test_eq_cost_eq_weight_normal, a request that is
\* enqueued leaves every entry of the backlog in place, the entries with its
\* start_tag included, and goes behind them; a pickup takes the entry with
\* the least start_tag and, among those, the one enqueued first; and every
\* one of the calls is served in the end, so no waiter is lost.
NoWaiterLostOnTie ==
    /\ [][(nextId' # nextId /\ last'.out = "admitted" /\ ~SlotFree(serving, depth)) =>
            /\ Len(backlog') = Len(backlog) + 1
            /\ \A i \in 1..Len(backlog) :
                  \E j \in 1..Len(backlog') :
                      /\ backlog'[j] = backlog[i]
                      /\ \A k \in 1..Len(backlog') :
                            (backlog'[k].id = last'.id
                               /\ backlog[i].start_tag = last'.start_tag) => j < k
            /\ \E k \in 1..Len(backlog') :
                  backlog'[k].id = last'.id /\ backlog'[k].start_tag = last'.start_tag]_vars
    /\ [][(releases' # releases /\ backlog # <<>>) =>
            /\ last'.picked.id \in Ids(backlog)
            /\ \A i \in 1..Len(backlog) :
                  \/ backlog[i].start_tag > last'.picked.start_tag
                  \/ /\ backlog[i].start_tag = last'.picked.start_tag
                     /\ backlog[i].id >= last'.picked.id
            /\ Ids(backlog') = Ids(backlog) \ {last'.picked.id}]_vars
    /\ <>(\A r \in TestIds : result[r] = "guard")

\* two requests waited with the same start_tag; the one enqueued first has
\* been picked up and the other is still in the backlog
NoWaiterLostOnTieWitness ==
    /\ last.op = "release"
    /\ Len(last.backlog) >= 2
    /\ last.picked = last.backlog[1]
    /\ last.backlog[2].start_tag = last.picked.start_tag
    /\ last.backlog[2].id > last.picked.id
    /\ backlog # <<>>
    /\ backlog[1] = last.backlog[2]

\* C33: whenever a request waits in the backlog, serving equals depth: every
\* slot is counted as taken, also while a destroyed guard's release task has
\* not yet run.
WorkConserving ==
    /\ backlog # <<>> => serving = depth
    /\ serving < depth => backlog = <<>>
    /\ (backlog # <<>> /\ depth > 0) =>
          Cardinality({r \in ReqIds : guard[r].state \in {"live", "dropped"}}) = depth

\* a request waits while the only guard is destroyed and its release task has
\* not run: the slot is still counted
WorkConservingWitness ==
    /\ backlog # <<>>
    /\ depth > 0
    /\ serving = depth
    /\ tasks # {}
    /\ \A r \in ReqIds : guard[r].state # "live"
    /\ \E r \in ReqIds : guard[r].state = "dropped"

\* C34: no request waits in the backlog with a start_tag below virtual_time;
\* so a pickup, which sets virtual_time to the start_tag of the entry it
\* takes, never moves virtual_time back.
VirtualTimeNeverOvertakesWaiter ==
    /\ \A e \in Entries(backlog) : virtual_time <= e.start_tag
    /\ \A e \in Entries(last.backlog) : last.virtual_time <= e.start_tag
    /\ (last.op = "release" /\ last.picked.id # 0) =>
          /\ last.picked \in Entries(last.backlog)
          /\ virtual_time = last.picked.start_tag
          /\ virtual_time >= last.virtual_time

\* a pickup has moved virtual_time up to the start_tag of the entry it took,
\* and the entry left behind is above it
VirtualTimeNeverOvertakesWaiterWitness ==
    /\ last.op = "release"
    /\ last.picked.id # 0
    /\ virtual_time > last.virtual_time
    /\ backlog # <<>>
    /\ backlog[1].start_tag > virtual_time

\* C35: the set of flow entries only grows, and only by the flow of the
\* acquire that is made; it holds the flow of every acquire made so far, of
\* every backlog entry, of every guard not yet released and of every release
\* task, so a release always finds the entry of its flow.
FlowEntriesPersist ==
    /\ [](\A e \in Entries(backlog) : e.flow_id \in DOMAIN flows)
    /\ [](\A r \in ReqIds :
             guard[r].state \in {"live", "dropped"} => guard[r].flow_id \in DOMAIN flows)
    /\ [](\A t \in tasks : t.flow_id \in DOMAIN flows)
    /\ [](last.op \in {"acquire", "release"} => last.flow_id \in DOMAIN flows)
    /\ [][/\ DOMAIN flows \subseteq DOMAIN flows'
          /\ (nextId' # nextId) => (DOMAIN flows' = (DOMAIN flows) \cup {last'.flow_id})
          /\ (nextId' = nextId) => (DOMAIN flows' = DOMAIN flows)
          /\ (releases' # releases) => (last'.flow_id \in DOMAIN flows)]_vars

\* a release has found the entry of its flow and updated its cost estimate
\* while a request of another flow, which has an entry too, waited
FlowEntriesPersistWitness ==
    /\ last.op = "release"
    /\ last.flow_id \in DOMAIN flows
    /\ flows[last.flow_id].cost_avg > 0
    /\ \E e \in Entries(last.backlog) :
          e.flow_id # last.flow_id /\ e.flow_id \in DOMAIN flows

\* C36 (as claimed): for every backlog_cap and depth, an acquire that finds
\* |backlog| >= backlog_cap finds the backlog non-empty, so the peek of the
\* largest entry succeeds and no acquire aborts.
OverloadBranchFindsEntry ==
    /\ (last.op = "acquire" /\ Len(last.backlog) >= backlog_cap) =>
          /\ last.backlog # <<>>
          /\ last.out \in {"overloaded", "admitted"}
    /\ \A r \in ReqIds : result[r] # "panic"

\* C37: an acquire that evicts takes the last entry out of the backlog and
\* puts its own request in: the backlog is as long as before, serving and
\* virtual_time are unchanged and no guard is made; the evicted request was of
\* another flow, and that flow, like every flow but the arriving one, keeps
\* its previous_finish_tag, still above the evicted start_tag, and its
\* cost_avg; the arriving flow changes in its previous_finish_tag only.
EvictionKeepsTags ==
    [][(nextId' # nextId /\ last'.evicted # 0) =>
         LET gone == backlog[Len(backlog)]
             f == last'.flow_id
         IN  /\ gone.id = last'.evicted
             /\ last'.out = "admitted"
             /\ Len(backlog') = Len(backlog)
             /\ Entries(backlog') =
                   (Entries(backlog) \ {gone})
                      \cup {[id |-> last'.id, flow_id |-> f, start_tag |-> last'.start_tag]}
             /\ serving' = serving
             /\ virtual_time' = virtual_time
             /\ guard' = guard /\ tasks' = tasks
             /\ gone.flow_id # f
             /\ DOMAIN flows' = DOMAIN flows \cup {f}
             /\ \A g \in DOMAIN flows \ {f} : flows'[g] = flows[g]
             /\ flows'[gone.flow_id].previous_finish_tag > gone.start_tag
             /\ f \in DOMAIN flows => flows'[f].cost_avg = flows[f].cost_avg
             /\ flows'[f].previous_finish_tag > last'.start_tag]_vars

\* an acquire has evicted a waiter of another flow and taken its place
EvictionKeepsTagsWitness ==
    /\ last.op = "acquire"
    /\ last.evicted # 0
    /\ last.evicted \in Ids(last.backlog)
    /\ last.evicted \notin Ids(backlog)
    /\ last.id \in Ids(backlog)
    /\ Len(backlog) = Len(last.backlog)
    /\ chan[last.evicted] = "closed"
    /\ \E e \in Entries(last.backlog) :
          /\ e.id = last.evicted
          /\ e.flow_id # last.flow_id
          /\ flows[e.flow_id].previous_finish_tag > e.start_tag

\* C38: a request rejected with Overloaded has a start_tag at or above that
\* of every request in the backlog, which the rejection leaves as it was; an
\* evicted request had a start_tag above that of the request that took its
\* place and at or above that of every other request left in the backlog.
DroppedIsNeverFairer ==
    /\ (last.op = "acquire" /\ last.out = "overloaded") =>
          /\ backlog = last.backlog
          /\ \A e \in Entries(backlog) : e.start_tag <= last.start_tag
    /\ (last.op = "acquire" /\ last.evicted # 0) =>
          \E gone \in Entries(last.backlog) :
             /\ gone.id = last.evicted
             /\ gone \notin Entries(backlog)
             /\ gone.start_tag > last.start_tag
             /\ \A e \in Entries(backlog) : e.start_tag <= gone.start_tag

\* a request was rejected while two requests with different start_tags, none
\* above its own, stay in the backlog
DroppedIsNeverFairerWitness ==
    /\ last.op = "acquire"
    /\ last.out = "overloaded"
    /\ Len(backlog) = 2
    /\ backlog[1].start_tag < backlog[2].start_tag
    /\ backlog[2].start_tag <= last.start_tag

\* C39: a caller that drops the future of a call waiting in the backlog
\* changes nothing in the scheduler: the request stays in the backlog, which
\* with it is never longer than backlog_cap.  Its entry leaves the backlog in
\* one of two ways: an acquire evicts it, and no guard is made; or a release
\* finds it first in the backlog and dispatches it as it would a live one
\* (the slot is taken, virtual_time is its start_tag, a guard is made), the
\* guard is destroyed and a release task with the cost measured for it is
\* spawned.  That release updates cost_avg of the request's flow with that
\* cost, and in the end every abandoned request is out of the backlog or
\* released.
AbandonedStaysUntilPickedOrEvicted ==
    /\ [](Len(backlog) <= backlog_cap)
    /\ [](\A r \in ReqIds :
             (result[r] = "abandoned" /\ chan[r] = "open") =>
                 r \in Ids(backlog) /\ guard[r].state = "none")
    /\ [][\A r \in ReqIds :
            (result[r] = "pending" /\ result'[r] = "abandoned" /\ chan[r] = "open") =>
                /\ r \in Ids(backlog)
                /\ UNCHANGED <<flows, backlog, serving, virtual_time, chan, guard,
                               tasks, lock>>]_vars
    /\ [][\A r \in ReqIds :
            (result[r] = "abandoned" /\ r \in Ids(backlog) /\ r \notin Ids(backlog')) =>
                \/ /\ nextId' # nextId
                   /\ last'.evicted = r
                   /\ chan'[r] = "closed"
                   /\ guard'[r].state = "none"
                   /\ serving' = serving /\ virtual_time' = virtual_time
                \/ /\ releases' # releases
                   /\ last'.picked = Head(backlog)
                   /\ last'.picked.id = r
                   /\ virtual_time' = last'.picked.start_tag
                   /\ serving' = (serving - 1) + 1
                   /\ chan'[r] = "closed"
                   /\ guard'[r] = [state |-> "dropped", flow_id |-> last'.picked.flow_id]
                   /\ \E t \in tasks' \ tasks :
                         /\ t.id = r /\ t.flow_id = last'.picked.flow_id
                         /\ t.cost \in Costs]_vars
    /\ [][\A r \in ReqIds :
            (result[r] = "abandoned" /\ releases'[r] # releases[r]) =>
                \E t \in tasks :
                   /\ t.id = r
                   /\ guard[r].state = "dropped" /\ guard'[r].state = "released"
                   /\ flows'[t.flow_id].cost_avg =
                          (4 * flows[t.flow_id].cost_avg + t.cost) \div 5]_vars
    /\ <>[](\A r \in ReqIds :
               result[r] = "abandoned" =>
                  \/ guard[r].state = "released" /\ releases[r] = 1
                  \/ guard[r].state = "none" /\ (chan[r] = "closed" \/ r \in Ids(backlog)))

\* a request abandoned by its caller still waits in the backlog and fills
\* it: the acquire made after the caller gave up was rejected with Overloaded
AbandonedStaysUntilPickedOrEvictedWitness ==
    /\ last.op = "acquire"
    /\ last.out = "overloaded"
    /\ Len(backlog) = backlog_cap
    /\ \E r \in Ids(backlog) :
          /\ result[r] = "abandoned"
          /\ chan[r] = "open"
          /\ guard[r].state = "none"
    /\ \A r \in Ids(backlog) : result[r] = "abandoned"

\* C40: the estimate after a release lies between the estimate before it and
\* the released cost, for every pair of values and in every release step; so
\* an estimate that starts at 0 is never above the largest cost a release can
\* bring, and it is above 0 only for a flow that has had a guard released.
SmoothedCostWithinInputs ==
    /\ \A a \in 0..20, c \in 0..20 :
          /\ SmoothedCost(a, c) >= (IF a <= c THEN a ELSE c)
          /\ SmoothedCost(a, c) <= Max(a, c)
    /\ [][releases' # releases =>
            \E t \in tasks :
               LET a == flows[t.flow_id].cost_avg
                   c == t.cost
               IN  /\ t.id = last'.id /\ t \notin tasks'
                   /\ flows'[t.flow_id].cost_avg >= (IF a <= c THEN a ELSE c)
                   /\ flows'[t.flow_id].cost_avg <= Max(a, c)]_vars
    /\ [][releases' = releases =>
            \A f \in DOMAIN flows : flows'[f].cost_avg = flows[f].cost_avg]_vars
    /\ [](\A f \in DOMAIN flows :
             /\ \E c \in Costs : flows[f].cost_avg <= c
             /\ flows[f].cost_avg > 0 =>
                   \E r \in ReqIds : guard[r] = [state |-> "released", flow_id |-> f])

\* a release with cost 0 has brought an estimate of 2 down to 1, strictly
\* between the two
SmoothedCostWithinInputsWitness ==
    /\ last.op = "release"
    /\ flows[last.flow_id].cost_avg = 1
    /\ Cardinality({r \in ReqIds :
                      guard[r] = [state |-> "released", flow_id |-> last.flow_id]}) >= 2

====
